---- MODULE Spec2Model ----
(***************************************************************************)
(* Overlay rendering and audio-visual synchronisation engine of jolo-viz   *)
(* (frontend/src/components/VideoWithOverlay.tsx, the later of the two     *)
(* revisions kept in that file).                                           *)
(*                                                                         *)
(* Numbers.  JavaScript numbers are IEEE-754 binary64.  Two number models  *)
(* are used:                                                               *)
(*  - SpecResolve models the frame index resolver with binary64 division,  *)
(*    multiplication and floor (F64Div, F64Mul, F64Floor), because there   *)
(*    the rounding decides the result.                                     *)
(*  - Elsewhere playback times are multiples of 1/GridPerSec seconds with  *)
(*    GridPerSec a power of two, levels are multiples of 1/128, and fps is *)
(*    an integer; chart sample times fi/fps and interpolated levels are    *)
(*    kept as exact fractions [n, d].                                      *)
(***************************************************************************)
EXTENDS Integers, Naturals, Sequences, FiniteSets, TLC

\* ------------------------------------------------------------------------
\* Program constants (VideoWithOverlay.tsx)
\* ------------------------------------------------------------------------
TRAIL_LEN == 20
GRAPH_WINDOW_SEC == 2
AUDIO_HISTORY_MAX_SEC == 4
AUDIO_LEVEL_BOOST == 5
\* sampleAudioLevel: const center = 128; rms = sqrt(sum / n) / 128
AUDIO_CENTER == 128

\* binary64: significand width, and the limb base 2^16 of its model
F64_MANT == 53
F64_LIMB == 65536

\* ------------------------------------------------------------------------
\* Bounds of the model
\* ------------------------------------------------------------------------
\* largest frame index i tried by the resolver specification
MaxResolveFrame == 130
\* playback times are 0..MaxTime grid steps
MaxTime == 24
\* most samples the live audio history holds in the model
MaxHist == 3

\* video.currentTime is a multiple of 1/GridPerSec seconds (a power of two, so
\* that every time of the model is exact in binary64)
GridPerSec == 2

null == "null"
\* an absent (null) track id
nullId == -1
\* an optional value (a FrameRecord of a sparse map, audio_levels, saliency):
\* absent is <<>>, a present value x is <<x>>
absent == <<>>
Present(x) == <<x>>

VARIABLES
  props,            \* VideoWithOverlayProps: videoUrl, trackResult, fps,
                    \*   overlayDelaySec, graphCategoryVisible, showSaliency
  video,            \* the media element: currentTime, paused, ended, readyState,
                    \*   videoWidth/Height, clientWidth/Height
  classNames,       \* COCO_CLASS_NAMES, the list GRAPH_CATEGORIES is built from
  analyserRef,      \* analyserRef.current: null or "analyser"
  audioHistoryRef,  \* audioHistoryRef.current: sequence of [time, level]
  canvas,           \* the overlay canvas: width, height and what the last draw put on it
  resolved,         \* SpecResolve: inputs and result of one frame index resolution
  view,             \* the component: "mounted" or "unmounted"
  rafPending,       \* number of requestAnimationFrame callbacks requested and
                    \*   neither run nor cancelled
  audioContextRef,  \* audioContextRef.current: absent or the index in contexts
  mediaSourceRef,   \* mediaSourceRef.current: null or "source"
  audioDataRef,     \* audioDataRef.current: null or "data"
  contexts,         \* every AudioContext constructed so far: its state, and
                    \*   whether the capture graph was built on it (wired)
  effects,          \* the effects React has still to run for the last render
  app,              \* App: videoId, trackResult, loading, uploading, error, ... and
                    \*   the asynchronous runs of its handlers still in flight
  upload,           \* one call of uploadVideo: the request, the timer, the promise
  track             \* one call of runTrack: its position, the timer, the polls

vars == <<props, video, classNames, analyserRef, audioHistoryRef, canvas, resolved,
          view, rafPending, audioContextRef, mediaSourceRef, audioDataRef, contexts,
          effects, app, upload, track>>

\* the state of the client around the component, and the component's state
client == <<app, upload, track>>
component == <<props, video, classNames, analyserRef, audioHistoryRef, canvas,
               resolved, view, rafPending, audioContextRef, mediaSourceRef,
               audioDataRef, contexts, effects>>

\* ------------------------------------------------------------------------
\* Exact fractions [n, d] with d > 0
\* ------------------------------------------------------------------------
Frac(n, d) == [n |-> n, d |-> d]
FracZero == Frac(0, 1)
FracOne == Frac(1, 1)
FracLeq(a, b) == a.n * b.d <= b.n * a.d
FracLess(a, b) == a.n * b.d < b.n * a.d
FracEq(a, b) == a.n * b.d = b.n * a.d
FracMin(a, b) == IF FracLeq(a, b) THEN a ELSE b
FracMax(a, b) == IF FracLeq(a, b) THEN b ELSE a

Min(a, b) == IF a <= b THEN a ELSE b
Max(a, b) == IF a >= b THEN a ELSE b
\* the largest element of a sequence of naturals, 0 for the empty sequence
SeqMax(s) ==
  LET S == {s[i] : i \in 1..Len(s)} \cup {0}
  IN CHOOSE m \in S : \A x \in S : x <= m

\* ------------------------------------------------------------------------
\* binary64 arithmetic (ECMAScript Number) for the values the resolver meets:
\* quotients a / b of naturals with 0 <= a / b < 32 and their products with a
\* natural.  A value is [l, u]: l = <<l3, l2, l1, l0>> are limbs of 16 bits
\* of the integer N = l3*2^48 + l2*2^32 + l1*2^16 + l0 and the value is
\* N * 2^-(48+u).  A nonzero quotient has 2^52 <= N <= 2^53 (53 significant
\* bits); rounding is round-to-nearest, ties-to-even.
\* ------------------------------------------------------------------------
F64Zero == [l |-> <<0, 0, 0, 0>>, u |-> 0]

\* number of bits of n
RECURSIVE BitLen(_)
BitLen(n) == IF n = 0 THEN 0 ELSE 1 + BitLen(n \div 2)

\* propagate carries from the low limb to the top limb
Carry(l) ==
  LET c0 == l[4] \div F64_LIMB
      c1 == (l[3] + c0) \div F64_LIMB
      c2 == (l[2] + c1) \div F64_LIMB
  IN <<l[1] + c2, (l[2] + c1) % F64_LIMB, (l[3] + c0) % F64_LIMB, l[4] % F64_LIMB>>

\* a / b for naturals a, b with b > 0 and a / b < 32
F64Div(a, b) ==
  IF a = 0 THEN F64Zero
  ELSE LET \* a * 2^u / b lies in [16, 32): the top limb holds the 5 leading bits
           u == CHOOSE k \in 0..(F64_MANT - 1) :
                   16 * b <= a * 2^k /\ a * 2^k < 32 * b
           A == a * 2^u
           q3 == A \div b
           r3 == A % b
           q2 == (r3 * F64_LIMB) \div b
           r2 == (r3 * F64_LIMB) % b
           q1 == (r2 * F64_LIMB) \div b
           r1 == (r2 * F64_LIMB) % b
           q0 == (r1 * F64_LIMB) \div b
           r0 == (r1 * F64_LIMB) % b
           up == 2 * r0 > b \/ (2 * r0 = b /\ q0 % 2 = 1)
       IN [l |-> Carry(<<q3, q2, q1, q0 + (IF up THEN 1 ELSE 0)>>), u |-> u]

\* x * n for a binary64 value x and a natural n > 0
F64Mul(x, n) ==
  LET p == Carry(<<x.l[1] * n, x.l[2] * n, x.l[3] * n, x.l[4] * n>>)
      \* bits of the exact product beyond the 53 a significand holds
      cut == IF BitLen(p[1]) > 5 THEN BitLen(p[1]) - 5 ELSE 0
      low == p[4] % 2^cut
      half == IF cut = 0 THEN 1 ELSE 2^(cut - 1)
      up == cut > 0 /\ (low > half \/ (low = half /\ (p[4] \div 2^cut) % 2 = 1))
  IN [l |-> Carry(<<p[1], p[2], p[3], p[4] - low + (IF up THEN 2^cut ELSE 0)>>),
      u |-> x.u]

\* Math.floor(x)
F64Floor(x) == x.l[1] \div 2^(x.u)

\* Math.floor(t * fps) for the binary64 number t = fi / fps
FloorTimesFps(fi, fps) == F64Floor(F64Mul(F64Div(fi, fps), fps))

\* drawOverlay: frameIndex = Math.floor(Math.max(0, currentTime - delay) * fps)
\* for currentTime = i / fps and a delay (whole seconds) that is 0 or not less
\* than currentTime
ResolveFrameIndex(i, fps, delay) ==
  IF delay = 0 THEN FloorTimesFps(i, fps)
  ELSE F64Floor(F64Mul(F64Zero, fps))

\* ------------------------------------------------------------------------
\* Category classifier
\* ------------------------------------------------------------------------
\* String.prototype.toLowerCase on the class names of the model
toLowerCase(s) ==
  CASE s = "Person" -> "person"
    [] s = "CAR" -> "car"
    [] s = "Car" -> "car"
    [] OTHER -> s

\* types.ts COCO_CLASS_NAMES (the head of the COCO list, in its order)
COCO_CLASS_NAMES == <<"person", "bicycle", "car">>

\* one category per class name, then the catch-all "Other"
buildGraphCategories(names) ==
  [i \in 1..(Len(names) + 1) |->
     IF i <= Len(names) THEN [label |-> names[i], classNames |-> {names[i]}]
     ELSE [label |-> "Other", classNames |-> {}]]

GRAPH_CATEGORIES == buildGraphCategories(classNames)
OTHER_INDEX == Len(GRAPH_CATEGORIES)

\* m.set(n.toLowerCase(), c) for c = 1, 2, ...: a later category overwrites
\* the entry of an earlier one
RECURSIVE ClassNameMap(_, _)
ClassNameMap(cats, c) ==
  IF c = 0 THEN [k \in {} |-> 0]
  ELSE LET m == ClassNameMap(cats, c - 1)
           keys == {toLowerCase(n) : n \in cats[c].classNames}
       IN [k \in (DOMAIN m) \cup keys |-> IF k \in keys THEN c ELSE m[k]]

CLASS_NAME_TO_INDEX == ClassNameMap(GRAPH_CATEGORIES, Len(GRAPH_CATEGORIES))

\* CLASS_NAME_TO_INDEX.get(name) ?? OTHER_INDEX, for name already lower-cased
CategoryIndexOf(name) ==
  IF name \in DOMAIN CLASS_NAME_TO_INDEX THEN CLASS_NAME_TO_INDEX[name]
  ELSE OTHER_INDEX

\* the counts of one chart sample: counts[idx]++ for every name of the frame,
\* all 0 for an absent frame
RECURSIVE CountNames(_, _)
CountNames(names, counts) ==
  IF names = <<>> THEN counts
  ELSE LET idx == CategoryIndexOf(toLowerCase(names[1]))
       IN CountNames(Tail(names), [counts EXCEPT ![idx] = @ + 1])

FrameCountsNoOther(fr) ==
  IF fr = absent THEN [c \in 1..Len(GRAPH_CATEGORIES) |-> 0]
  ELSE [c \in 1..Len(GRAPH_CATEGORIES) |->
          Cardinality({i \in 1..Len(fr[1].names) :
             c # OTHER_INDEX /\ CategoryIndexOf(toLowerCase(fr[1].names[i])) = c})]

FrameCounts(fr) ==
  IF fr = absent THEN [c \in 1..Len(GRAPH_CATEGORIES) |-> 0]
  ELSE CountNames(fr[1].names, [c \in 1..Len(GRAPH_CATEGORIES) |-> 0])

\* trackResult.frames[fi]
FrameAtNext(result, fi) ==
  IF fi + 1 \in DOMAIN result.frames THEN Present(result.frames[fi + 1]) ELSE absent

FrameAt(result, fi) ==
  IF fi \in DOMAIN result.frames THEN Present(result.frames[fi]) ELSE absent

\* ------------------------------------------------------------------------
\* Audio levels.  A stored level is a number of 1/128ths (sampleAudioLevel
\* divides the rms by 128); a plotted level is a fraction.
\* ------------------------------------------------------------------------
LevelFrac(level) == Frac(level, AUDIO_CENTER)

\* index of the first sample whose time is not before t (seconds, a fraction);
\* sample times are grid steps
RECURSIVE FirstNotAfter(_, _, _)
FirstNotAfter(audioSamples, t, i) ==
  IF i <= Len(audioSamples) /\ audioSamples[i].time * t.d <= t.n * GridPerSec
  THEN FirstNotAfter(audioSamples, t, i + 1)
  ELSE i

RECURSIVE FirstNotBefore(_, _, _)
FirstNotBefore(audioSamples, t, i) ==
  IF i <= Len(audioSamples) /\ audioSamples[i].time * t.d < t.n * GridPerSec
  THEN FirstNotBefore(audioSamples, t, i + 1)
  ELSE i

getAudioLevelAt(audioSamples, t) ==
  IF Len(audioSamples) = 0 THEN FracZero
  ELSE IF Len(audioSamples) = 1 THEN LevelFrac(audioSamples[1].level)
  ELSE LET i == FirstNotBefore(audioSamples, t, 1)
       IN IF i = 1 THEN LevelFrac(audioSamples[1].level)
          ELSE IF i > Len(audioSamples)
               THEN LevelFrac(audioSamples[Len(audioSamples)].level)
          ELSE LET a == audioSamples[i - 1]
                   b == audioSamples[i]
                   \* frac = (t - a.time) / (b.time - a.time || 1) = fn / fd
                   fn == t.n * GridPerSec - a.time * t.d
                   fd == IF b.time - a.time = 0 THEN t.d * GridPerSec
                         ELSE t.d * (b.time - a.time)
               IN Frac(a.level * fd + fn * (b.level - a.level), AUDIO_CENTER * fd)

\* toYAudio: boosted = Math.min(1, level * AUDIO_LEVEL_BOOST), then Math.max(0, boosted)
BoostedNoClamp(level) == Frac(level.n * AUDIO_LEVEL_BOOST, level.d)

Boosted(level) ==
  FracMax(FracZero, FracMin(FracOne, Frac(level.n * AUDIO_LEVEL_BOOST, level.d)))

\* trackResult.audio_levels[i] ?? 0 (indices from 0 as in the program)
AudioLevelsAt(result, i) ==
  IF result.audio_levels # absent /\ i >= 0 /\ i < Len(result.audio_levels[1])
  THEN LevelFrac(result.audio_levels[1][i + 1])
  ELSE FracZero

preScanned(result) ==
  result.audio_levels # absent /\ Len(result.audio_levels[1]) > 0

\* ------------------------------------------------------------------------
\* drawCountGraph: what the chart layer computes and plots.  syncTime is in
\* grid steps; a sample time fi / fps is the fraction [n |-> fi, d |-> fps].
\* ------------------------------------------------------------------------
\* graphCategoryVisible[label] is truthy
CategoryVisible(graphCategoryVisible, label) ==
  label \in DOMAIN graphCategoryVisible /\ graphCategoryVisible[label]

\* graphCategoryVisible["Audio"] !== false
AudioVisible(graphCategoryVisible) ==
  ~("Audio" \in DOMAIN graphCategoryVisible /\ ~graphCategoryVisible["Audio"])

\* the frame indices the loop visits before it breaks on t > tMax
SampleFrames(fps, tMin, tMax) ==
  LET frameMin == (tMin * fps) \div GridPerSec
      frameMax == (tMax * fps + GridPerSec - 1) \div GridPerSec
      last == CHOOSE fi \in (frameMin - 1)..frameMax :
                /\ fi >= frameMin => fi * GridPerSec <= tMax * fps
                /\ fi < frameMax => (fi + 1) * GridPerSec > tMax * fps
  IN [k \in 1..(last - frameMin + 1) |-> frameMin + k - 1]

\* Math.max(1, ...counts of the visible categories)
MaxCountAll(categoryCounts, graphCategoryVisible) ==
  Max(1, SeqMax([c \in 1..Len(GRAPH_CATEGORIES) |-> SeqMax(categoryCounts[c])]))

MaxCount(categoryCounts, graphCategoryVisible) ==
  Max(1, SeqMax([c \in 1..Len(GRAPH_CATEGORIES) |->
                   IF CategoryVisible(graphCategoryVisible, GRAPH_CATEGORIES[c].label)
                   THEN SeqMax(categoryCounts[c]) ELSE 0]))

\* audioLevels[k] of the chart for the sample of frame fi
ChartAudioLevelNoFuture(result, fps, syncTime, audioSamples, fi) ==
  IF preScanned(result)
  THEN AudioLevelsAt(result, Max(0, Min(FloorTimesFps(fi, fps),
                                        Len(result.audio_levels[1]) - 1)))
  ELSE getAudioLevelAt(audioSamples, Frac(fi, fps))

ChartAudioLevel(result, fps, syncTime, audioSamples, fi) ==
  \* t > syncTime
  IF fi * GridPerSec > syncTime * fps THEN FracZero
  ELSE IF preScanned(result)
       THEN AudioLevelsAt(result, Max(0, Min(FloorTimesFps(fi, fps),
                                             Len(result.audio_levels[1]) - 1)))
       ELSE getAudioLevelAt(audioSamples, Frac(fi, fps))

\* levelAtSyncTime of the playhead marker
LevelAtSyncTime(result, fps, syncTime, audioSamples) ==
  IF preScanned(result)
  THEN AudioLevelsAt(result, Min(Max(0, (syncTime * fps) \div GridPerSec),
                                 Len(result.audio_levels[1]) - 1))
  ELSE getAudioLevelAt(audioSamples, Frac(syncTime, GridPerSec))

\* tMin = Math.max(0, syncTime - GRAPH_WINDOW_SEC), tMax = syncTime + GRAPH_WINDOW_SEC
WindowMinNoClamp(syncTime) == syncTime - GRAPH_WINDOW_SEC * GridPerSec

WindowMin(syncTime) == Max(0, syncTime - GRAPH_WINDOW_SEC * GridPerSec)
WindowMax(syncTime) == syncTime + GRAPH_WINDOW_SEC * GridPerSec

drawCountGraph(result, fps, syncTime, audioSamples, graphCategoryVisible) ==
  LET tMin == WindowMin(syncTime)
      tMax == WindowMax(syncTime)
      frames == SampleFrames(fps, tMin, tMax)
      n == Len(frames)
      counts == [k \in 1..n |-> FrameCounts(FrameAt(result, frames[k]))]
      categoryCounts == [c \in 1..Len(GRAPH_CATEGORIES) |-> [k \in 1..n |-> counts[k][c]]]
      audioLevels == [k \in 1..n |->
                        ChartAudioLevel(result, fps, syncTime, audioSamples, frames[k])]
      showAudio == AudioVisible(graphCategoryVisible)
  IN [tMin |-> tMin,
      tMax |-> tMax,
      frames |-> frames,
      categoryCounts |-> categoryCounts,
      maxCount |-> MaxCount(categoryCounts, graphCategoryVisible),
      \* the count series filled and stroked: those of the visible categories
      series |-> {c \in 1..Len(GRAPH_CATEGORIES) :
                    n > 0 /\ CategoryVisible(graphCategoryVisible,
                                             GRAPH_CATEGORIES[c].label)},
      audioLevels |-> audioLevels,
      \* the audio series and the playhead marker, plotted through toYAudio
      audioPlot |-> IF showAudio /\ n > 0
                    THEN [k \in 1..n |-> Boosted(audioLevels[k])] ELSE <<>>,
      marker |-> IF showAudio /\ n > 0
                 THEN Present([level |-> LevelAtSyncTime(result, fps, syncTime, audioSamples),
                               plotted |-> Boosted(LevelAtSyncTime(result, fps, syncTime,
                                                                    audioSamples))])
                 ELSE absent]

\* ------------------------------------------------------------------------
\* sampleAudioLevel: rms deviation of the analyser's byte samples from 128,
\* divided by 128 and clamped to 1.  The result is in 1/128ths.
\* ------------------------------------------------------------------------
SumSquares(data) ==
  LET vals == {data[i] : i \in 1..Len(data)}
      f[S \in SUBSET vals] ==
        IF S = {} THEN 0
        ELSE LET v == CHOOSE x \in S : TRUE
             IN Cardinality({i \in 1..Len(data) : data[i] = v})
                  * (v - AUDIO_CENTER) * (v - AUDIO_CENTER) + f[S \ {v}]
  IN f[vals]

\* Math.sqrt of a perfect square
Sqrt(x) == CHOOSE r \in 0..(2 * AUDIO_CENTER) : r * r = x

sampleAudioLevel(data) ==
  Min(AUDIO_CENTER, Sqrt(SumSquares(data) \div Len(data)))

\* while (history.length > 0 && history[0].time < cutoff) history.shift()
RECURSIVE PruneHead(_, _)
PruneHead(history, cutoff) ==
  IF Len(history) > 0 /\ history[1].time < cutoff
  THEN PruneHead(Tail(history), cutoff)
  ELSE history

\* ------------------------------------------------------------------------
\* trackIdToHue: (id * 137.508) % 360, 0 for a null id.  Hues are in
\* thousandths of a degree, in exact arithmetic (the binary64 result differs
\* from it by rounding only: hue(7) is 242.55600000000004).
\* ------------------------------------------------------------------------
trackIdToHueNoWrap(id) == IF id = nullId THEN 0 ELSE id * 137508

trackIdToHue(id) == IF id = nullId THEN 0 ELSE (id * 137508) % 360000

\* ------------------------------------------------------------------------
\* drawOverlay: trails
\* ------------------------------------------------------------------------
\* the points pushed for track id tid while scanning the boxes of one frame
RECURSIVE FramePoints(_, _, _, _)
FramePoints(fr, tid, i, scale) ==
  IF i > Len(fr.boxes) THEN <<>>
  ELSE LET box == fr.boxes[i]
           pt == [x |-> Frac((box[1] + box[3]) * scale.dw, 2 * scale.vw),
                  y |-> Frac((box[2] + box[4]) * scale.dh, 2 * scale.vh)]
       IN (IF fr.track_ids[i] # nullId /\ fr.track_ids[i] = tid THEN <<pt>> ELSE <<>>)
            \o FramePoints(fr, tid, i + 1, scale)

\* the points pushed for tid while scanning frames f..frameIndex
RECURSIVE TrailPoints(_, _, _, _, _)
TrailPoints(result, tid, f, frameIndex, scale) ==
  IF f > frameIndex THEN <<>>
  ELSE (IF f \in DOMAIN result.frames
        THEN FramePoints(result.frames[f], tid, 1, scale) ELSE <<>>)
         \o TrailPoints(result, tid, f + 1, frameIndex, scale)

\* first frame of the trailing window
TrailStart(frameIndex) == Max(0, frameIndex - TRAIL_LEN)

\* trailByTrack: track id -> points, for the ids met in the window
trailByTrack(result, frameIndex, scale) ==
  LET startFrame == TrailStart(frameIndex)
      present == {f \in startFrame..frameIndex : f \in DOMAIN result.frames}
      tids == UNION {{result.frames[f].track_ids[i] :
                        i \in 1..Len(result.frames[f].boxes)} : f \in present} \ {nullId}
  IN [tid \in tids |-> TrailPoints(result, tid, startFrame, frameIndex, scale)]

\* if (points.length < 2) return; otherwise the polyline is stroked
PolylineDrawnAlways(points) == TRUE

PolylineDrawn(points) == Len(points) >= 2

\* ------------------------------------------------------------------------
\* drawOverlay: one redraw pass
\* ------------------------------------------------------------------------
\* the canvas element exists only while trackResult is set
canvasRefSet == props.trackResult # absent

\* !video || !canvas || !trackResult || video.readyState < 2, or a native
\* dimension of 0: the pass returns before doing anything
PassSkipped ==
  \/ ~canvasRefSet
  \/ video.readyState < 2
  \/ video.videoWidth = 0
  \/ video.videoHeight = 0

\* syncTime = Math.max(0, video.currentTime - overlayDelaySec), in grid steps
SyncTime == Max(0, video.currentTime - props.overlayDelaySec)

\* frameIndex = Math.floor(syncTime * fps)
FrameIndex == (SyncTime * props.fps) \div GridPerSec

\* the audio history after the sampling step of a pass that reads data
SampledHistoryWhilePaused(data) ==
  IF analyserRef # null /\ ~video.ended
  THEN PruneHead(Append(audioHistoryRef,
                        [time |-> video.currentTime, level |-> sampleAudioLevel(data)]),
                 video.currentTime - AUDIO_HISTORY_MAX_SEC * GridPerSec)
  ELSE audioHistoryRef

SampledHistory(data) ==
  IF analyserRef # null /\ ~video.paused /\ ~video.ended
  THEN PruneHead(Append(audioHistoryRef,
                        [time |-> video.currentTime, level |-> sampleAudioLevel(data)]),
                 video.currentTime - AUDIO_HISTORY_MAX_SEC * GridPerSec)
  ELSE audioHistoryRef

\* the heatmap is drawn for a non-empty grid when showSaliency is on
\* (drawSaliencyHeatmap returns at once for a grid of 0 rows or 0 columns)
HeatmapDrawn(frame) ==
  /\ props.showSaliency
  /\ frame.saliency # absent
  /\ Len(frame.saliency[1]) > 0
  /\ Len(frame.saliency[1][1]) > 0

\* what the pass leaves on the canvas
DrawnLayersAbsentAsEmpty(history) ==
  LET result == props.trackResult[1]
      scale == [dw |-> video.clientWidth, dh |-> video.clientHeight,
                vw |-> video.videoWidth, vh |-> video.videoHeight]
      chart == drawCountGraph(result, props.fps, SyncTime, history,
                              props.graphCategoryVisible)
      trails == trailByTrack(result, FrameIndex, scale)
  IN [frameIndex |-> FrameIndex,
      framePresent |-> FrameIndex \in DOMAIN result.frames,
      heatmap |-> FALSE,
      trailByTrack |-> trails,
      polylines |-> {tid \in DOMAIN trails : PolylineDrawn(trails[tid])},
      boxes |-> <<>>,
      chart |-> Present(chart)]

DrawnLayers(history) ==
  LET result == props.trackResult[1]
      scale == [dw |-> video.clientWidth, dh |-> video.clientHeight,
                vw |-> video.videoWidth, vh |-> video.videoHeight]
      chart == drawCountGraph(result, props.fps, SyncTime, history,
                              props.graphCategoryVisible)
  IN IF FrameIndex \notin DOMAIN result.frames
     THEN \* if (!frame) { drawCountGraph(...); return; }
          [frameIndex |-> FrameIndex,
           framePresent |-> FALSE,
           heatmap |-> FALSE,
           trailByTrack |-> [tid \in {} |-> <<>>],
           polylines |-> {},
           boxes |-> <<>>,
           chart |-> Present(chart)]
     ELSE LET frame == result.frames[FrameIndex]
              trails == trailByTrack(result, FrameIndex, scale)
          IN [frameIndex |-> FrameIndex,
              framePresent |-> TRUE,
              heatmap |-> HeatmapDrawn(frame),
              trailByTrack |-> trails,
              polylines |-> {tid \in DOMAIN trails : PolylineDrawn(trails[tid])},
              \* strokeRect of every box, in its track's colour
              boxes |-> [i \in 1..Len(frame.boxes) |->
                           [box |-> frame.boxes[i], tid |-> frame.track_ids[i],
                            hue |-> trackIdToHue(frame.track_ids[i])]],
              chart |-> Present(chart)]

\* the canvas before any pass has drawn on it
BlankLayers ==
  [frameIndex |-> 0, framePresent |-> FALSE, heatmap |-> FALSE,
   trailByTrack |-> [tid \in {} |-> <<>>], polylines |-> {}, boxes |-> <<>>,
   chart |-> absent]

\* the canvas after a pass that is not skipped: canvas.width and canvas.height
\* are assigned the display size if either differs from it (resized records
\* that the pass assigned them), then clearRect and the layers
DrawnCanvasAlwaysResized(history) ==
  [width |-> video.clientWidth,
   height |-> video.clientHeight,
   resized |-> TRUE,
   drawn |-> TRUE,
   layers |-> DrawnLayers(history)]

DrawnCanvas(history) ==
  [width |-> video.clientWidth,
   height |-> video.clientHeight,
   resized |-> (canvas.width # video.clientWidth \/ canvas.height # video.clientHeight),
   drawn |-> TRUE,
   layers |-> DrawnLayers(history)]

\* drawOverlay with the analyser delivering the byte samples data
drawOverlaySamplingFirst(data) ==
  LET history == SampledHistory(data)
  IN /\ Len(history) <= MaxHist
     /\ audioHistoryRef' = history
     /\ canvas' = IF PassSkipped THEN canvas ELSE DrawnCanvas(history)

drawOverlay(data) ==
  IF PassSkipped
  THEN UNCHANGED <<audioHistoryRef, canvas>>
  ELSE LET history == SampledHistory(data)
       IN /\ Len(history) <= MaxHist
          /\ audioHistoryRef' = history
          /\ canvas' = DrawnCanvas(history)

\* ------------------------------------------------------------------------
\* Tracking results the model plays
\* ------------------------------------------------------------------------
\* a FrameRecord from its detections [box, tid, name] (parallel arrays of one
\* length) and its optional saliency grid
FrameRecord(dets, saliency) ==
  [boxes |-> [i \in 1..Len(dets) |-> dets[i].box],
   track_ids |-> [i \in 1..Len(dets) |-> dets[i].tid],
   names |-> [i \in 1..Len(dets) |-> dets[i].name],
   saliency |-> saliency]

Det(box, tid, name) == [box |-> box, tid |-> tid, name |-> name]

\* 2 fps, live audio.  Track 1 is in every frame 0..22, track 2 in frames 5
\* and 6, track 3 in frame 12 only, an untracked detection in every even
\* frame; frame 23 is missing; frame 3 has a saliency grid, frame 4 an empty one.
ResultTracks ==
  [fps |-> 2,
   frame_count |-> 26,
   frames |->
     [f \in (0..25) \ {23} |->
        FrameRecord(
          (IF f <= 22 THEN <<Det(<<f, 0, f + 2, 2>>, 1, "person")>> ELSE <<>>)
          \o (IF f % 2 = 0 THEN <<Det(<<0, f, 2, f + 1>>, nullId, "CAR")>> ELSE <<>>)
          \o (IF f \in {5, 6} THEN <<Det(<<f, f, f + 1, f + 1>>, 2, "kite")>> ELSE <<>>)
          \o (IF f = 12 THEN <<Det(<<1, 1, 3, 3>>, 3, "bicycle"),
                               Det(<<2, 2, 4, 4>>, nullId, "Person")>> ELSE <<>>),
          IF f = 3 THEN Present(<<<<0, 64>>, <<128, 32>>>>)
          ELSE IF f = 4 THEN Present(<<>>) ELSE absent)],
   audio_levels |-> absent]

\* the scenario of the design document: 30 fps, 300 frames, frame 45 holds a
\* "person" and a "car"; 300 pre-scanned audio levels
ResultScenario ==
  [fps |-> 30,
   frame_count |-> 300,
   frames |->
     [f \in {44, 45, 60} |->
        IF f = 45
        THEN FrameRecord(<<Det(<<1, 1, 3, 3>>, 1, "person"),
                           Det(<<2, 0, 4, 2>>, 2, "car")>>, absent)
        ELSE IF f = 44
        THEN FrameRecord(<<Det(<<1, 1, 3, 3>>, 1, "person"),
                           Det(<<2, 0, 4, 2>>, 2, "car"),
                           Det(<<0, 0, 1, 1>>, 3, "car"),
                           Det(<<0, 1, 1, 2>>, nullId, "truck")>>, absent)
        ELSE FrameRecord(<<>>, absent)],
   audio_levels |-> Present([i \in 1..300 |-> ((i - 1) * 7) % (AUDIO_CENTER + 1)])]

\* 1 fps, fewer pre-scanned levels than frames
ResultShortAudio ==
  [fps |-> 1,
   frame_count |-> 6,
   frames |->
     [f \in {0, 1, 3} |->
        FrameRecord(<<Det(<<0, 0, 2, 2>>, f + 1, "bicycle"),
                      Det(<<1, 1, 3, 3>>, 7, "bicycle"),
                      Det(<<1, 0, 3, 2>>, nullId, "Car")>>, absent)],
   audio_levels |-> Present(<<128, 20, 64>>)]

\* audio_levels present but empty
ResultEmptyAudio ==
  [fps |-> 2,
   frame_count |-> 4,
   frames |-> [f \in {1, 2} |-> FrameRecord(<<Det(<<0, 0, 2, 2>>, nullId, "person")>>,
                                             absent)],
   audio_levels |-> Present(<<>>)]

\* graphCategoryVisible maps: everything on, one class off, a class and the
\* audio off, and a map without an entry for some labels
VisibleMaps ==
  { [l \in {"person", "bicycle", "car", "Other", "Audio"} |-> TRUE],
    [l \in {"person", "bicycle", "car", "Other", "Audio"} |-> l # "car"],
    [l \in {"person", "bicycle", "car", "Other", "Audio"} |-> l \notin {"person", "Audio"}],
    [l \in {"person", "Other"} |-> l = "person"] }

\* live audio histories: empty, one sample, in time order, after a backward
\* seek, with equal times, after a seek back to a time sampled before
Sample(time, level) == [time |-> time, level |-> level]
SortedHistory == <<Sample(1, 0), Sample(2, 128), Sample(5, 20)>>
AudioHistories ==
  { <<>>,
    <<Sample(3, 64)>>,
    SortedHistory,
    <<Sample(6, 128), Sample(0, 10), Sample(2, 30)>>,
    <<Sample(2, 64), Sample(2, 16)>>,
    <<Sample(2, 30), Sample(6, 128), Sample(2, 10)>> }

\* analyser buffers of AUDIO_ANALYSER_FFT_SIZE bytes whose samples all deviate
\* from 128 by the same amount: silence, half scale, full scale
AUDIO_ANALYSER_FFT_SIZE == 256
SampleBuffers ==
  { [i \in 1..AUDIO_ANALYSER_FFT_SIZE |-> AUDIO_CENTER],
    [i \in 1..AUDIO_ANALYSER_FFT_SIZE |-> IF i % 2 = 0 THEN 64 ELSE 192],
    [i \in 1..AUDIO_ANALYSER_FFT_SIZE |-> 0] }

\* ------------------------------------------------------------------------
\* The client around the component: App and the calls of api.ts, as they are
\* when nothing has been selected, sent or started
\* ------------------------------------------------------------------------
timeoutMs == 15000
TRACK_POLL_INTERVAL_MS == 500
TRACK_TIMEOUT_MS == 600000

\* the useState values of App at mount; runs are the asynchronous runs of its
\* handlers that have not finished, uploads counts the ids the server gave out
NewApp ==
  [videoId |-> absent, trackResult |-> absent, loading |-> FALSE,
   uploading |-> FALSE, uploadPercent |-> absent, selectedFileName |-> absent,
   trackProgress |-> absent, error |-> null, runs |-> <<>>, uploads |-> 0]

\* uploadVideo once the executor of its promise has run: the request is sent
\* and the timer is armed.  timeoutId is the variable, timerPending whether
\* the browser still holds the timer, timerFired whether its callback has run,
\* percent the last value given to onProgress, clock the milliseconds since
\* the call
NewUpload ==
  [readyState |-> "sent", timeoutId |-> Present("timer"), timerPending |-> TRUE,
   timerFired |-> FALSE, promise |-> [state |-> "pending", value |-> null],
   percent |-> absent, clock |-> 0]

\* runTrack when called: startTrack is awaited, no timer yet.  at is what the
\* function awaits, polls the poll responses received, progress the calls of
\* onProgress, resultFetches the calls of getResult, clock the milliseconds
\* since the timer was set
NewTrack ==
  [at |-> "startTrack", timerPending |-> FALSE, aborted |-> FALSE, polls |-> 0,
   progress |-> <<>>, resultFetches |-> 0,
   promise |-> [state |-> "pending", value |-> null], clock |-> 0]

ClientIdle == app = NewApp /\ upload = NewUpload /\ track = NewTrack

\* ------------------------------------------------------------------------
\* SpecDraw: one redraw pass (the requestAnimationFrame tick runs drawOverlay)
\* from every state of the enumerated inputs
\* ------------------------------------------------------------------------
\* overlayDelaySec values, in grid steps: none, one second, past the end
OverlayDelays == {0, GridPerSec, 2 * MaxTime}

ReadyVideo(t, paused) ==
  [currentTime |-> t, paused |-> paused, ended |-> FALSE, readyState |-> 4,
   videoWidth |-> 4, videoHeight |-> 2, clientWidth |-> 8, clientHeight |-> 4]

\* a media element that has not decoded a frame, or has no native size yet
UnreadyVideos ==
  { [ReadyVideo(2, FALSE) EXCEPT !.readyState = 1],
    [ReadyVideo(2, FALSE) EXCEPT !.videoWidth = 0, !.videoHeight = 0] }

\* the canvas element as created: 300 x 150, nothing drawn
NewCanvas ==
  [width |-> 300, height |-> 150, resized |-> FALSE, drawn |-> FALSE,
   layers |-> BlankLayers]

Props(result, delay, visible, showSaliency) ==
  [videoUrl |-> "a",
   trackResult |-> result,
   fps |-> IF result = absent THEN 30 ELSE result[1].fps,
   overlayDelaySec |-> delay,
   graphCategoryVisible |-> visible,
   showSaliency |-> showSaliency]

AllVisible == [l \in {"person", "bicycle", "car", "Other", "Audio"} |-> TRUE]

\* playback times of the chart inputs: 0 s .. 4 s
ChartTimes == 0..(2 * GRAPH_WINDOW_SEC * GridPerSec)

\* the resolver record outside SpecResolve
NoResolution == [fps |-> 1, i |-> 0, delay |-> 0, frameIndex |-> absent]

\* the audio pipeline never initialised, and initialised with a running context
NoPipeline ==
  /\ analyserRef = null
  /\ audioContextRef = absent
  /\ mediaSourceRef = null
  /\ audioDataRef = null
  /\ contexts = <<>>

LivePipeline ==
  /\ analyserRef = "analyser"
  /\ audioContextRef = Present(1)
  /\ mediaSourceRef = "source"
  /\ audioDataRef = "data"
  /\ contexts = <<[state |-> "running", wired |-> TRUE]>>

\* no effect to run; otherwise which dependencies the last render changed:
\* videoUrl (and whether the previous videoUrl was set), drawOverlay
NoEffects == [url |-> FALSE, hadUrl |-> FALSE, draw |-> FALSE]

\* mounted, the effects have run: one animation frame callback is pending
Mounted ==
  /\ view = "mounted"
  /\ rafPending = 1
  /\ effects = NoEffects

InitDraw ==
  /\ ClientIdle
  /\ classNames = COCO_CLASS_NAMES
  /\ resolved = NoResolution
  /\ canvas = NewCanvas
  /\ Mounted
  /\ \/ \* the trails and layers of ResultTracks at every playback time
        /\ \E d \in {0, GridPerSec}, s \in BOOLEAN :
             props = Props(Present(ResultTracks), d, AllVisible, s)
        /\ \E t \in 0..MaxTime : video = ReadyVideo(t, TRUE)
        /\ audioHistoryRef = <<>>
        /\ NoPipeline
     \/ \* the chart over results, delays and visibility maps, playback paused
        /\ \E r \in {ResultTracks, ResultShortAudio, ResultEmptyAudio},
              d \in OverlayDelays, v \in VisibleMaps :
             props = Props(Present(r), d, v, TRUE)
        /\ \E t \in ChartTimes : video = ReadyVideo(t, TRUE)
        /\ audioHistoryRef = SortedHistory
        /\ LivePipeline
     \/ \* the chart and the sampling step over live histories, playing or paused
        /\ \E r \in {ResultTracks, ResultShortAudio, ResultEmptyAudio},
              d \in {0, GridPerSec} :
             props = Props(Present(r), d, AllVisible, TRUE)
        /\ \E t \in ChartTimes, p \in BOOLEAN : video = ReadyVideo(t, p)
        /\ audioHistoryRef \in AudioHistories
        /\ LivePipeline
     \/ \* a display element of the size of the new canvas, or of its width
        /\ props = Props(Present(ResultEmptyAudio), 0, AllVisible, TRUE)
        /\ \E h \in {NewCanvas.height, ReadyVideo(2, TRUE).clientHeight} :
             video = [ReadyVideo(2, TRUE) EXCEPT !.clientWidth = NewCanvas.width,
                                                 !.clientHeight = h]
        /\ audioHistoryRef = <<>>
        /\ NoPipeline
     \/ \* the sampling step with the media ended
        /\ props = Props(Present(ResultEmptyAudio), 0, AllVisible, TRUE)
        /\ \E t \in ChartTimes : video = [ReadyVideo(t, FALSE) EXCEPT !.ended = TRUE]
        /\ audioHistoryRef \in AudioHistories
        /\ LivePipeline
     \/ \* the sampling step with the media playing and no pipeline
        /\ props = Props(Present(ResultEmptyAudio), 0, AllVisible, TRUE)
        /\ \E t \in ChartTimes : video = ReadyVideo(t, FALSE)
        /\ audioHistoryRef = <<>>
        /\ NoPipeline
     \/ \* the scenario result at 1.5 s and 2.0 s
        /\ \E v \in VisibleMaps : props = Props(Present(ResultScenario), 0, v, TRUE)
        /\ \E t \in {(3 * GridPerSec) \div 2, 2 * GridPerSec} : video = ReadyVideo(t, TRUE)
        /\ audioHistoryRef \in {<<>>, <<Sample(3, 64)>>}
        /\ LivePipeline
     \/ \* the media element not ready
        /\ props = Props(Present(ResultTracks), 0, AllVisible, TRUE)
        /\ video \in UnreadyVideos
        /\ audioHistoryRef = <<>>
        /\ LivePipeline
     \/ \* no tracking result yet
        /\ props = Props(absent, 0, AllVisible, TRUE)
        /\ video = ReadyVideo(2, FALSE)
        /\ audioHistoryRef = <<>>
        /\ LivePipeline

\* cancelAnimationFrame(rafId) in the cleanup of the loop's effect: rafId is
\* the callback the loop requested last, which is pending
CancelFrameNever(pending) == pending

CancelFrame(pending) == Max(0, pending - 1)

\* rafId = requestAnimationFrame(tick)
RequestFrameDropped(pending) == pending

RequestFrame(pending) == pending + 1

\* the refs of the audio pipeline
audioRefs == <<analyserRef, audioContextRef, mediaSourceRef, audioDataRef, contexts>>

\* the tick of the redraw loop, run by the browser when its callback is due:
\* drawOverlay(); rafId = requestAnimationFrame(tick)
TickWith(buffers) ==
  /\ view = "mounted"
  /\ effects = NoEffects
  /\ rafPending > 0
  /\ \E data \in buffers : drawOverlay(data)
  /\ rafPending' = RequestFrame(rafPending - 1)
  /\ UNCHANGED <<props, video, classNames, client, resolved, view, audioRefs, effects>>

Tick == TickWith(SampleBuffers)

NextDraw == Tick

SpecDraw == InitDraw /\ [][NextDraw]_vars

\* ------------------------------------------------------------------------
\* SpecResolve: the frame index resolver of drawOverlay on playback times
\* i / fps, in binary64
\* ------------------------------------------------------------------------
ResolveFps == {24, 25, 30}
\* overlayDelaySec in seconds: none, or more than every playback time tried
ResolveDelays == {0, MaxResolveFrame + 1}

InitResolve ==
  /\ resolved \in [fps : ResolveFps, i : 0..MaxResolveFrame, delay : ResolveDelays,
                   frameIndex : {absent}]
  /\ classNames = COCO_CLASS_NAMES
  /\ props = Props(absent, 0, AllVisible, FALSE)
  /\ video = ReadyVideo(0, TRUE)
  /\ audioHistoryRef = <<>>
  /\ NoPipeline
  /\ Mounted
  /\ canvas = NewCanvas
  /\ ClientIdle

\* the tick resolves the frame index of the playback time
Resolve ==
  /\ resolved.frameIndex = absent
  /\ resolved' = [resolved EXCEPT !.frameIndex =
                    Present(ResolveFrameIndex(resolved.i, resolved.fps, resolved.delay))]
  /\ UNCHANGED <<props, video, classNames, client, audioHistoryRef, canvas, view,
                 rafPending, audioRefs, effects>>

NextResolve == Resolve

SpecResolve == InitResolve /\ [][NextResolve]_vars

\* ------------------------------------------------------------------------
\* SpecClassify: one redraw pass for class lists in which a name may recur
\* (in another case), so that two categories match one detection name
\* ------------------------------------------------------------------------
ClassNameLists ==
  { COCO_CLASS_NAMES,
    <<"person", "car", "Car">>,
    <<"CAR", "bicycle", "car", "person">>,
    <<"person">> }

InitClassify ==
  /\ classNames \in ClassNameLists
  /\ resolved = NoResolution
  /\ canvas = NewCanvas
  /\ \E r \in {ResultTracks, ResultShortAudio} :
       props = Props(Present(r), 0, AllVisible, FALSE)
  /\ \E t \in 0..MaxTime : video = ReadyVideo(t, TRUE)
  /\ audioHistoryRef = <<>>
  /\ NoPipeline
  /\ Mounted
  /\ ClientIdle

NextClassify == Tick

SpecClassify == InitClassify /\ [][NextClassify]_vars

\* ------------------------------------------------------------------------
\* Spec: the component from mount to unmount.  The parent renders it with
\* new props, React runs the effects of the render, the media element plays,
\* pauses, seeks, loads and ends, the user clicks, the browser runs the
\* animation frame callback and the loadeddata / resize listeners.
\* ------------------------------------------------------------------------
MaxContexts == 2
MaxLifeTime == 9

\* videoUrl values other than null
Urls == {"a", "b"}

\* playback times: the start and a time more than AUDIO_HISTORY_MAX_SEC later
LifeTimes == {0, MaxLifeTime}

\* the analyser delivers a full scale signal
LifeBuffers == {[i \in 1..AUDIO_ANALYSER_FFT_SIZE |-> 0]}

\* the result the parent passes once tracking is done: live audio
LifeResult == ResultEmptyAudio

\* graphCategoryVisible: everything on, or the class "car" off
LifeVisibleMaps == {AllVisible, [l \in DOMAIN AllVisible |-> l # "car"]}

\* a media element with no source, or whose source has just been set
UnloadedVideo ==
  [currentTime |-> 0, paused |-> TRUE, ended |-> FALSE, readyState |-> 0,
   videoWidth |-> 0, videoHeight |-> 0, clientWidth |-> 8, clientHeight |-> 4]

ComponentAtMount ==
  /\ classNames = COCO_CLASS_NAMES
  /\ resolved = NoResolution
  /\ props = [Props(absent, 0, AllVisible, TRUE) EXCEPT !.videoUrl = null]
  /\ video = UnloadedVideo
  /\ canvas = NewCanvas
  /\ audioHistoryRef = <<>>
  /\ NoPipeline
  /\ Mounted

Init == ComponentAtMount /\ ClientIdle

\* the refs of the audio pipeline as one record
AudioRefs ==
  [analyser |-> analyserRef, context |-> audioContextRef, source |-> mediaSourceRef,
   data |-> audioDataRef, contexts |-> contexts]

SetAudioRefs(r) ==
  /\ analyserRef' = r.analyser
  /\ audioContextRef' = r.context
  /\ mediaSourceRef' = r.source
  /\ audioDataRef' = r.data
  /\ contexts' = r.contexts

\* an AudioContext starts running, or suspended when autoplay policy says so
NewContextStates == {"running", "suspended"}

\* initAudioPipeline: the refs it may leave.  It returns at once without a
\* source or with an analyser; otherwise the try block either completes and
\* sets the four refs together, or stops early (no AudioContext constructor,
\* or a call throws and the catch swallows it) with the refs as they were,
\* after constructing a context or not.  A context constructed by a failed
\* call is referenced by nothing: its state is recorded as "unreferenced".
initAudioPipelineAgain(r) ==
  IF props.videoUrl = null
  THEN {r}
  ELSE {r}
       \cup (IF Len(r.contexts) < MaxContexts
             THEN {[r EXCEPT !.contexts = Append(@, [state |-> "unreferenced",
                                                     wired |-> FALSE])]}
                  \cup {[analyser |-> "analyser",
                         context |-> Present(Len(r.contexts) + 1),
                         source |-> "source",
                         data |-> "data",
                         contexts |-> Append(r.contexts, [state |-> st, wired |-> TRUE])] :
                     st \in NewContextStates}
             ELSE {})

initAudioPipelineEarlyRefs(r) ==
  IF props.videoUrl = null \/ r.analyser # null
  THEN {r}
  ELSE {r}
       \cup (IF Len(r.contexts) < MaxContexts
             THEN {[r EXCEPT !.context = Present(Len(r.contexts) + 1),
                             !.contexts = Append(@, [state |-> "unreferenced",
                                                     wired |-> FALSE])]}
                  \cup {[analyser |-> "analyser",
                         context |-> Present(Len(r.contexts) + 1),
                         source |-> "source",
                         data |-> "data",
                         contexts |-> Append(r.contexts, [state |-> st, wired |-> TRUE])] :
                     st \in NewContextStates}
             ELSE {})

initAudioPipeline(r) ==
  IF props.videoUrl = null \/ r.analyser # null
  THEN {r}
  ELSE {r}
       \cup (IF Len(r.contexts) < MaxContexts
             THEN {[r EXCEPT !.contexts = Append(@, [state |-> "unreferenced",
                                                     wired |-> FALSE])]}
                  \cup {[analyser |-> "analyser",
                         context |-> Present(Len(r.contexts) + 1),
                         source |-> "source",
                         data |-> "data",
                         contexts |-> Append(r.contexts, [state |-> st, wired |-> TRUE])] :
                     st \in NewContextStates}
             ELSE {})

\* resumeAudioContext: a suspended context resumes, or resume() rejects and
\* the catch swallows it
resumeAudioContext(r) ==
  IF r.context = absent THEN {r}
  ELSE IF r.contexts[r.context[1]].state = "suspended"
       THEN {r, [r EXCEPT !.contexts[r.context[1]].state = "running"]}
       ELSE {r}

\* initAudioPipeline(); resumeAudioContext()
InitAndResume ==
  \E a \in initAudioPipeline(AudioRefs) : \E b \in resumeAudioContext(a) :
    SetAudioRefs(b)

\* the cleanup of the effect on videoUrl, registered when videoUrl was set:
\* close the context, clear the refs and the history
TeardownKeepsHistory(r) ==
  IF r.context = absent THEN [refs |-> r, history |-> audioHistoryRef]
  ELSE [refs |-> [analyser |-> null, context |-> absent, source |-> null,
                  data |-> null,
                  contexts |-> [r.contexts EXCEPT ![r.context[1]].state = "closed"]],
        history |-> audioHistoryRef]

TeardownKeepsAnalyser(r) ==
  IF r.context = absent THEN [refs |-> r, history |-> audioHistoryRef]
  ELSE [refs |-> [r EXCEPT !.context = absent,
                           !.contexts[r.context[1]].state = "closed"],
        history |-> <<>>]

Teardown(r) ==
  IF r.context = absent THEN [refs |-> r, history |-> audioHistoryRef]
  ELSE [refs |-> [analyser |-> null, context |-> absent, source |-> null,
                  data |-> null,
                  contexts |-> [r.contexts EXCEPT ![r.context[1]].state = "closed"]],
        history |-> <<>>]

Idle == view = "mounted" /\ effects = NoEffects

\* the parent renders the component with another videoUrl, keeping the
\* tracking result or resetting it; the media element's src changes, which
\* resets the element; without a result the canvas element is not rendered
SourceChange ==
  /\ Idle
  /\ \E u \in (Urls \cup {null}) \ {props.videoUrl},
        r \in {absent, props.trackResult} :
       /\ props' = [props EXCEPT !.videoUrl = u, !.trackResult = r]
       /\ canvas' = IF r = absent THEN NewCanvas ELSE canvas
       /\ effects' = [url |-> TRUE, hadUrl |-> props.videoUrl # null,
                      draw |-> r # props.trackResult]
  /\ video' = UnloadedVideo
  /\ UNCHANGED <<classNames, client, resolved, view, rafPending, audioRefs, audioHistoryRef>>

\* the parent passes the tracking result: the canvas element is created
ResultChange ==
  /\ Idle
  /\ props.trackResult = absent
  /\ props' = [props EXCEPT !.trackResult = Present(LifeResult),
                            !.fps = LifeResult.fps]
  /\ canvas' = NewCanvas
  /\ effects' = [url |-> FALSE, hadUrl |-> FALSE, draw |-> TRUE]
  /\ UNCHANGED <<video, classNames, client, resolved, view, rafPending, audioRefs,
                 audioHistoryRef>>

\* the parent changes a rendering option (a dependency of drawOverlay)
ConfigChange ==
  /\ Idle
  /\ \E v \in LifeVisibleMaps \ {props.graphCategoryVisible} :
       props' = [props EXCEPT !.graphCategoryVisible = v]
  /\ effects' = [url |-> FALSE, hadUrl |-> FALSE, draw |-> TRUE]
  /\ UNCHANGED <<video, classNames, client, resolved, view, rafPending, audioRefs,
                 audioHistoryRef, canvas>>

\* React runs the cleanups and then the bodies of the effects whose
\* dependencies changed: on videoUrl the audio cleanup (the play listener is
\* attached anew), on drawOverlay cancelAnimationFrame(rafId), a new
\* requestAnimationFrame(tick) and a drawOverlay() pass.  After a change of
\* videoUrl the media element is not ready, so that pass returns at once.
RunEffects ==
  /\ view = "mounted"
  /\ effects # NoEffects
  /\ effects' = NoEffects
  /\ rafPending' = IF effects.draw THEN RequestFrame(CancelFrame(rafPending))
                   ELSE rafPending
  /\ IF effects.url /\ effects.hadUrl /\ audioContextRef # absent
     THEN /\ SetAudioRefs(Teardown(AudioRefs).refs)
          /\ audioHistoryRef' = Teardown(AudioRefs).history
          /\ PassSkipped
          /\ UNCHANGED canvas
     ELSE /\ UNCHANGED audioRefs
          /\ IF effects.draw
             THEN \E data \in LifeBuffers : drawOverlay(data)
             ELSE UNCHANGED <<audioHistoryRef, canvas>>
  /\ UNCHANGED <<props, video, classNames, client, resolved, view>>

\* the component unmounts: every cleanup runs
Unmount ==
  /\ Idle
  /\ view' = "unmounted"
  /\ rafPending' = CancelFrame(rafPending)
  /\ IF props.videoUrl # null
     THEN /\ SetAudioRefs(Teardown(AudioRefs).refs)
          /\ audioHistoryRef' = Teardown(AudioRefs).history
     ELSE UNCHANGED <<audioRefs, audioHistoryRef>>
  /\ UNCHANGED <<props, video, classNames, client, resolved, canvas, effects>>

\* the media element has loaded the first frame of its source
LoadedData ==
  /\ Idle
  /\ props.videoUrl # null
  /\ video.readyState = 0
  /\ video' = [video EXCEPT !.readyState = 4, !.videoWidth = 4, !.videoHeight = 2]
  /\ UNCHANGED <<props, classNames, client, resolved, view, rafPending, audioRefs,
                 audioHistoryRef, canvas, effects>>

\* playback starts; the play listener runs onPlay
Play ==
  /\ Idle
  /\ props.videoUrl # null
  /\ video.paused \/ video.ended
  /\ video' = [video EXCEPT !.paused = FALSE, !.ended = FALSE,
                            !.currentTime = IF video.ended THEN 0 ELSE @]
  /\ InitAndResume
  /\ UNCHANGED <<props, classNames, client, resolved, view, rafPending, audioHistoryRef,
                 canvas, effects>>

\* a click on the container: handleVideoInteraction
Click ==
  /\ Idle
  /\ InitAndResume
  /\ UNCHANGED <<props, video, classNames, client, resolved, view, rafPending,
                 audioHistoryRef, canvas, effects>>

Pause ==
  /\ Idle
  /\ ~video.paused
  /\ video' = [video EXCEPT !.paused = TRUE]
  /\ UNCHANGED <<props, classNames, client, resolved, view, rafPending, audioRefs,
                 audioHistoryRef, canvas, effects>>

\* playback reaches the end of the media
Ended ==
  /\ Idle
  /\ video.readyState >= 2
  /\ ~video.paused /\ ~video.ended
  /\ video' = [video EXCEPT !.ended = TRUE, !.currentTime = MaxLifeTime]
  /\ UNCHANGED <<props, classNames, client, resolved, view, rafPending, audioRefs,
                 audioHistoryRef, canvas, effects>>

\* the playback time moves, forward or backward (a seek, or playback)
Seek ==
  /\ Idle
  /\ video.readyState >= 2
  /\ \E t \in LifeTimes \ {video.currentTime} :
       video' = [video EXCEPT !.currentTime = t, !.ended = FALSE]
  /\ UNCHANGED <<props, classNames, client, resolved, view, rafPending, audioRefs,
                 audioHistoryRef, canvas, effects>>

\* the animation frame callback
Frame == TickWith(LifeBuffers)

\* the loadeddata or resize listener: drawOverlay()
ListenerPass ==
  /\ Idle
  /\ \E data \in LifeBuffers : drawOverlay(data)
  /\ UNCHANGED <<props, video, classNames, client, resolved, view, rafPending, audioRefs,
                 effects>>

Next ==
  \/ SourceChange
  \/ ResultChange
  \/ ConfigChange
  \/ RunEffects
  \/ Unmount
  \/ LoadedData
  \/ Play
  \/ Click
  \/ Pause
  \/ Ended
  \/ Seek
  \/ Frame
  \/ ListenerPass

Spec == Init /\ [][Next]_vars

\* ------------------------------------------------------------------------
\* SpecApp: App's handlers handleFileChange and handleApply.  Each run of a
\* handler is an asynchronous function: a step of the model is the code it
\* executes between two awaits.  The file input is disabled while uploading
\* or loading, the apply button while there is no videoId or while loading.
\* ------------------------------------------------------------------------
MaxUploads == 2
MaxRuns == 2

UploadPercents == {50, 100}
TrackProgresses == {"running", "done"}

RemoveAt(s, i) == SubSeq(s, 1, i - 1) \o SubSeq(s, i + 1, Len(s))

\* the finally block of handleFileChange's run
FileFinally(a) ==
  [a EXCEPT !.uploading = FALSE, !.uploadPercent = absent,
            !.selectedFileName = absent, !.loading = FALSE,
            !.trackProgress = absent]

\* the finally block of handleApply
ApplyFinally(a) == [a EXCEPT !.loading = FALSE, !.trackProgress = absent]

\* a file is chosen in the input: handleFileChange up to requestAnimationFrame
SelectFile ==
  /\ ~(app.uploading \/ app.loading)
  /\ app.uploads < MaxUploads
  /\ Len(app.runs) < MaxRuns
  /\ app' = [app EXCEPT !.error = null, !.uploading = TRUE,
                        !.uploadPercent = Present(0),
                        !.selectedFileName = Present("file"),
                        !.runs = Append(@, [handler |-> "handleFileChange",
                                            at |-> "frame", video_id |-> absent])]
  /\ UNCHANGED <<component, upload, track>>

\* the second animation frame callback calls run(), which calls uploadVideo
RunUpload ==
  /\ \E i \in 1..Len(app.runs) :
       /\ app.runs[i].at = "frame"
       /\ app' = [app EXCEPT !.runs[i].at = "uploadVideo"]
  /\ UNCHANGED <<component, upload, track>>

\* uploadVideo calls onProgress
UploadProgress ==
  /\ \E i \in 1..Len(app.runs), p \in UploadPercents :
       /\ app.runs[i].at = "uploadVideo"
       /\ app' = [app EXCEPT !.uploadPercent = Present(p)]
  /\ UNCHANGED <<component, upload, track>>

\* uploadVideo resolves with the id the server gave the video: the run goes on
\* to runTrack(video_id, ...)
UploadResolved ==
  /\ \E i \in 1..Len(app.runs) :
       /\ app.runs[i].at = "uploadVideo"
       /\ app' = [app EXCEPT !.videoId = Present(app.uploads + 1),
                             !.trackResult = absent,
                             !.uploading = FALSE,
                             !.uploadPercent = absent,
                             !.selectedFileName = absent,
                             !.loading = TRUE,
                             !.trackProgress = absent,
                             !.uploads = @ + 1,
                             !.runs[i] = [handler |-> "handleFileChange",
                                          at |-> "runTrack",
                                          video_id |-> Present(app.uploads + 1)]]
  /\ UNCHANGED <<component, upload, track>>

\* uploadVideo rejects: catch and finally of the run
UploadRejected ==
  /\ \E i \in 1..Len(app.runs) :
       /\ app.runs[i].at = "uploadVideo"
       /\ app' = FileFinally([app EXCEPT !.error = "message", !.videoId = absent,
                                         !.trackResult = absent,
                                         !.runs = RemoveAt(@, i)])
  /\ UNCHANGED <<component, upload, track>>

\* the apply button is pressed: handleApply up to its await, with the videoId
\* of the render the button belongs to
Apply ==
  /\ app.videoId # absent
  /\ ~app.loading
  /\ Len(app.runs) < MaxRuns
  /\ app' = [app EXCEPT !.error = null, !.loading = TRUE,
                        !.trackProgress = absent,
                        !.runs = Append(@, [handler |-> "handleApply",
                                            at |-> "runTrack",
                                            video_id |-> app.videoId])]
  /\ UNCHANGED <<component, upload, track>>

\* runTrack calls onProgress
TrackProgressed ==
  /\ \E i \in 1..Len(app.runs), p \in TrackProgresses :
       /\ app.runs[i].at = "runTrack"
       /\ app' = [app EXCEPT !.trackProgress = Present(p)]
  /\ UNCHANGED <<component, upload, track>>

\* runTrack resolves with the result of the job on the run's video
TrackResolved ==
  /\ \E i \in 1..Len(app.runs) :
       /\ app.runs[i].at = "runTrack"
       /\ LET a == [app EXCEPT !.trackResult = Present([video_id |-> app.runs[i].video_id[1]]),
                               !.runs = RemoveAt(@, i)]
          IN app' = IF app.runs[i].handler = "handleFileChange"
                    THEN FileFinally(a) ELSE ApplyFinally(a)
  /\ UNCHANGED <<component, upload, track>>

\* runTrack rejects
TrackRejected ==
  /\ \E i \in 1..Len(app.runs) :
       /\ app.runs[i].at = "runTrack"
       /\ app' = IF app.runs[i].handler = "handleFileChange"
                 THEN FileFinally([app EXCEPT !.error = "message",
                                              !.videoId = absent,
                                              !.trackResult = absent,
                                              !.runs = RemoveAt(@, i)])
                 ELSE ApplyFinally([app EXCEPT !.error = "message",
                                               !.runs = RemoveAt(@, i)])
  /\ UNCHANGED <<component, upload, track>>

InitApp == ComponentAtMount /\ ClientIdle

NextApp ==
  \/ SelectFile
  \/ RunUpload
  \/ UploadProgress
  \/ UploadResolved
  \/ UploadRejected
  \/ Apply
  \/ TrackProgressed
  \/ TrackResolved
  \/ TrackRejected

SpecApp == InitApp /\ [][NextApp]_vars

\* ------------------------------------------------------------------------
\* SpecUpload: one call of uploadVideo, from xhr.send to the end of the
\* request.  The events of the request and the timer callback are the steps.
\* ------------------------------------------------------------------------
MaxUploadSteps == 4

\* resolve(value) / reject(error) of a promise: only the first call settles it
Settle(promise, state, value) ==
  IF promise.state = "pending" THEN [state |-> state, value |-> value] ELSE promise

clearUploadTimeout(u) ==
  IF u.timeoutId # absent
  THEN [u EXCEPT !.timeoutId = absent, !.timerPending = FALSE]
  ELSE u

\* xhr.abort(): a request that was sent and has not ended ends, and its abort
\* event is dispatched before abort() returns; the listener of uploadVideo
\* clears the timeout and rejects
xhrAbort(u) ==
  IF u.readyState = "sent"
  THEN [clearUploadTimeout(u) EXCEPT
          !.readyState = "done",
          !.promise = Settle(u.promise, "rejected", "Upload cancelled")]
  ELSE u

\* time passes with the request under way
UploadWait ==
  /\ upload.readyState = "sent"
  /\ upload.clock < MaxUploadSteps * (timeoutMs \div 3)
  /\ upload' = [upload EXCEPT !.clock = @ + (timeoutMs \div 3)]
  /\ UNCHANGED <<component, app, track>>

\* a progress event of xhr.upload
ProgressEvent ==
  /\ upload.readyState = "sent"
  /\ \E computable \in BOOLEAN, p \in {0, 50, 100} :
       upload' = [clearUploadTimeout(upload) EXCEPT
                    !.percent = IF computable THEN Present(p) ELSE @]
  /\ UNCHANGED <<component, app, track>>

\* the load event: the response has arrived
LoadEvent ==
  /\ upload.readyState = "sent"
  /\ \E status \in {200, 500}, responseText \in {"json", "text", ""} :
       upload' = [clearUploadTimeout(upload) EXCEPT
                    !.readyState = "done",
                    !.promise =
                       IF status >= 200 /\ status < 300
                       THEN IF responseText = "json"
                            THEN Settle(@, "fulfilled", "video_id")
                            ELSE Settle(@, "rejected", "Invalid server response")
                       ELSE Settle(@, "rejected",
                                   IF responseText # "" THEN responseText
                                   ELSE "Upload failed: status")]
  /\ UNCHANGED <<component, app, track>>

\* the error event: the request failed
ErrorEvent ==
  /\ upload.readyState = "sent"
  /\ upload' = [clearUploadTimeout(upload) EXCEPT
                  !.readyState = "done",
                  !.promise = Settle(@, "rejected", "Network error")]
  /\ UNCHANGED <<component, app, track>>

\* the callback of setTimeout(..., timeoutMs): xhr.abort(), then reject
UploadTimeout ==
  /\ upload.timerPending
  /\ upload.clock >= timeoutMs
  /\ LET fired == [upload EXCEPT !.timerPending = FALSE, !.timerFired = TRUE]
         aborted == xhrAbort(fired)
     IN upload' = [aborted EXCEPT
                     !.promise = Settle(@, "rejected", "Upload timed out")]
  /\ UNCHANGED <<component, app, track>>

InitUpload == ComponentAtMount /\ ClientIdle

NextUpload ==
  \/ UploadWait
  \/ ProgressEvent
  \/ LoadEvent
  \/ ErrorEvent
  \/ UploadTimeout

SpecUpload == InitUpload /\ [][NextUpload]_vars

\* ------------------------------------------------------------------------
\* SpecTrack: one call of runTrack.  A step is the code between two awaits,
\* or the callback of the abort timer.
\* ------------------------------------------------------------------------
MaxPolls == 3

\* const progress = await poll(); onProgress?.(progress)
PollAnsweredSilentEnd(t, p) ==
  [t EXCEPT !.polls = @ + 1,
            !.progress = IF p.status = "running" THEN Append(@, p) ELSE @]

PollAnswered(t, p) == [t EXCEPT !.polls = @ + 1, !.progress = Append(@, p)]

\* the catch block: clearTimeout(timeoutId), then the error is thrown (the
\* timeout error for an AbortError)
Thrown(t, message) ==
  [t EXCEPT !.at = "thrown", !.timerPending = FALSE,
            !.promise = Settle(@, "rejected", message)]

\* startTrack answers: the timer is set and the first poll is sent, or
\* startTrack throws before the timer exists
StartTrack ==
  /\ track.at = "startTrack"
  /\ \E ok \in BOOLEAN :
       track' = IF ok THEN [track EXCEPT !.at = "poll", !.timerPending = TRUE]
                ELSE [track EXCEPT !.at = "thrown",
                                   !.promise = Settle(@, "rejected", "Track failed")]
  /\ UNCHANGED <<component, app, upload>>

\* time passes while a poll is awaited
TrackWait ==
  /\ track.at = "poll"
  /\ track.clock < TRACK_TIMEOUT_MS
  /\ track' = [track EXCEPT !.clock = @ + (TRACK_TIMEOUT_MS \div 2)]
  /\ UNCHANGED <<component, app, upload>>

\* a poll is answered: with the job's progress, or with a status that is not ok
PollResponse ==
  /\ track.at = "poll"
  /\ \/ /\ track.polls < MaxPolls
        /\ track' = [PollAnswered(track, [status |-> "running", message |-> ""])
                       EXCEPT !.at = "sleep"]
     \/ track' = [PollAnswered(track, [status |-> "done", message |-> ""])
                    EXCEPT !.at = "getResult", !.timerPending = FALSE,
                           !.resultFetches = @ + 1]
     \/ \E message \in {"", "job failed"} :
          track' = Thrown(PollAnswered(track, [status |-> "error", message |-> message]),
                          IF message # "" THEN message ELSE "Tracking failed")
     \/ track' = Thrown(track, "Progress: status")
  /\ UNCHANGED <<component, app, upload>>

\* the pause between two polls ends: the next poll is sent; with the signal
\* aborted its fetch rejects with an AbortError
PollSleep ==
  /\ track.at = "sleep"
  /\ LET t == [track EXCEPT !.clock = @ + TRACK_POLL_INTERVAL_MS]
     IN track' = IF track.aborted
                 THEN Thrown(t, "Tracking timed out after 10 minutes")
                 ELSE [t EXCEPT !.at = "poll"]
  /\ UNCHANGED <<component, app, upload>>

\* the callback of the abort timer: controller.abort(); a poll under way
\* rejects with an AbortError
TrackTimeout ==
  /\ track.timerPending
  /\ track.clock >= TRACK_TIMEOUT_MS
  /\ LET t == [track EXCEPT !.timerPending = FALSE, !.aborted = TRUE]
     IN track' = IF track.at = "poll"
                 THEN Thrown(t, "Tracking timed out after 10 minutes")
                 ELSE t
  /\ UNCHANGED <<component, app, upload>>

\* the result request is answered; runTrack has returned its promise
ResultResponse ==
  /\ track.at = "getResult"
  /\ \E r \in {"ok", "202", "text", ""} :
       track' = [track EXCEPT
                   !.at = "returned",
                   !.promise =
                      IF r = "ok" THEN Settle(@, "fulfilled", "result")
                      ELSE IF r = "202" THEN Settle(@, "rejected", "Job not finished")
                      ELSE Settle(@, "rejected",
                                  IF r # "" THEN r ELSE "Result: status")]
  /\ UNCHANGED <<component, app, upload>>

InitTrack == ComponentAtMount /\ ClientIdle

NextTrack ==
  \/ StartTrack
  \/ TrackWait
  \/ PollResponse
  \/ PollSleep
  \/ TrackTimeout
  \/ ResultResponse

SpecTrack == InitTrack /\ [][NextTrack]_vars

\* ------------------------------------------------------------------------
\* Properties.  They read what the last pass left on the canvas (Layers,
\* Chart) against the inputs of the pass, which no action changes.
\* ------------------------------------------------------------------------
Result == props.trackResult[1]
Layers == canvas.layers
Chart == canvas.layers.chart[1]
Categories == 1..Len(GRAPH_CATEGORIES)
Samples == 1..Len(Chart.frames)

\* the class names of the detections of frame fi, none for an absent frame
DetectionNames(fi) ==
  IF fi \in DOMAIN Result.frames THEN Result.frames[fi].names ELSE <<>>

\* the detections <<f, i>> of the frames of the trailing window of the pass
WindowDetections ==
  UNION {{<<f, i>> : i \in 1..Len(Result.frames[f].boxes)} :
           f \in (TrailStart(FrameIndex)..FrameIndex) \cap DOMAIN Result.frames}

\* the sum of a sequence of numbers
RECURSIVE SeqSum(_)
SeqSum(s) == IF s = <<>> THEN 0 ELSE s[1] + SeqSum(Tail(s))

\* a level within [0, 1]
InUnit(x) == FracLeq(FracZero, x) /\ FracLeq(x, FracOne)

\* C1: with delay 0, a tick at playback time i / fps resolves frame index i;
\* the resolved index is never negative, also when the delay exceeds the
\* playback time.
C1_FrameIndexResolution ==
  resolved.frameIndex # absent =>
    /\ resolved.frameIndex[1] >= 0
    /\ (resolved.delay = 0 => resolved.frameIndex[1] = resolved.i)

\* C2: in every tick the trail collected for a track id holds at most
\* TRAIL_LEN = 20 points.
C2_TrailLengthBound ==
  canvas.drawn =>
    \A tid \in DOMAIN Layers.trailByTrack : Len(Layers.trailByTrack[tid]) <= TRAIL_LEN

\* C3: a polyline is drawn for a track id only if at least 2 points were
\* collected for it in the trailing window, and a detection without a track
\* id adds no point: no trail is keyed by the null id, and the trail of an id
\* has exactly one point per detection of the window that carries the id.
C3_TrailDrawingRule ==
  canvas.drawn =>
    /\ \A tid \in Layers.polylines :
         tid \in DOMAIN Layers.trailByTrack /\ Len(Layers.trailByTrack[tid]) >= 2
    /\ nullId \notin DOMAIN Layers.trailByTrack
    /\ \A tid \in DOMAIN Layers.trailByTrack :
         Len(Layers.trailByTrack[tid]) =
           Cardinality({p \in WindowDetections :
                          Result.frames[p[1]].track_ids[p[2]] = tid})

\* a pass at whose frame one track has a single point and is not drawn,
\* another track is drawn, and the window holds an untracked detection
C3_Witness ==
  /\ canvas.drawn
  /\ \E tid \in DOMAIN Layers.trailByTrack :
       Len(Layers.trailByTrack[tid]) = 1 /\ tid \notin Layers.polylines
  /\ Layers.polylines # {}
  /\ \E p \in WindowDetections : Result.frames[p[1]].track_ids[p[2]] = nullId

\* C4: for every frame sampled by the chart, the counts of all categories
\* (the catch-all included) sum to the number of detections of the frame, and
\* an absent frame counts 0 in every category.
C4_CountConservation ==
  canvas.drawn =>
    \A k \in Samples :
      /\ SeqSum([c \in Categories |-> Chart.categoryCounts[c][k]])
           = Len(DetectionNames(Chart.frames[k]))
      /\ Chart.frames[k] \notin DOMAIN Result.frames =>
           \A c \in Categories : Chart.categoryCounts[c][k] = 0

\* a chart with a sample of an absent frame and a sample whose frame has a
\* detection counted by the catch-all
C4_Witness ==
  /\ canvas.drawn
  /\ \E k \in Samples : Chart.frames[k] \notin DOMAIN Result.frames
  /\ \E k \in Samples : Chart.categoryCounts[OTHER_INDEX][k] > 0
  /\ \E k \in Samples : Len(DetectionNames(Chart.frames[k])) >= 2

\* the categories one of whose class names equals name, case-insensitively
MatchingCategories(name) ==
  {c \in Categories :
     \E n \in GRAPH_CATEGORIES[c].classNames : toLowerCase(n) = toLowerCase(name)}

\* the earliest matching category, the catch-all when none matches
FirstMatch(name) ==
  IF MatchingCategories(name) = {} THEN OTHER_INDEX
  ELSE CHOOSE c \in MatchingCategories(name) : \A d \in MatchingCategories(name) : c <= d

ScenarioCase ==
  /\ canvas.drawn
  /\ props.fps = 30
  /\ 45 \in DOMAIN Result.frames
  /\ Result.frames[45].names = <<"person", "car">>
  /\ \E k \in Samples : Chart.frames[k] = 45

ScenarioSample == CHOOSE k \in Samples : Chart.frames[k] = 45

\* the sample's tally is n for the category labelled label
ScenarioTally(label, n) ==
  \E c \in Categories :
    GRAPH_CATEGORIES[c].label = label /\ Chart.categoryCounts[c][ScenarioSample] = n

\* the sample's tally is 0 for every category not labelled by labels
ScenarioZeroBut(labels) ==
  \A c \in Categories :
    GRAPH_CATEGORIES[c].label \notin labels => Chart.categoryCounts[c][ScenarioSample] = 0

C8_PrecomputedAudioLookup ==
  (canvas.drawn /\ preScanned(Result)) =>
    \A k \in Samples :
      IF Chart.frames[k] * GridPerSec > SyncTime * props.fps
      THEN FracEq(Chart.audioLevels[k], FracZero)
      ELSE Chart.audioLevels[k] =
             Frac(Result.audio_levels[1][
                    Max(0, Min(FloorTimesFps(Chart.frames[k], props.fps),
                               Len(Result.audio_levels[1]) - 1)) + 1],
                  AUDIO_CENTER)

\* 300 levels at 30 fps with the playhead at 2.0 s: the sample of t = 2.0 s
\* has the level audio_levels[60], the next sample has 0 though its stored
\* level is not 0
C8_Witness ==
  /\ canvas.drawn
  /\ preScanned(Result)
  /\ props.fps = 30
  /\ Len(Result.audio_levels[1]) = 300
  /\ SyncTime = 2 * GridPerSec
  /\ \E k \in Samples :
       /\ Chart.frames[k] = 60
       /\ Chart.audioLevels[k] = Frac(Result.audio_levels[1][61], AUDIO_CENTER)
       /\ Result.audio_levels[1][61] > 0
  /\ \E k \in Samples :
       /\ Chart.frames[k] = 61
       /\ FracEq(Chart.audioLevels[k], FracZero)
       /\ Result.audio_levels[1][62] > 0

\* C9: a pass whose resolved frame index has no FrameRecord completes, draws
\* no heatmap, no trail and no box, and still draws the chart from the frames
\* of its window.
C9_AbsentFrameDegradation ==
  (canvas.drawn /\ FrameIndex \notin DOMAIN Result.frames) =>
    /\ ~Layers.heatmap
    /\ DOMAIN Layers.trailByTrack = {}
    /\ Layers.polylines = {}
    /\ Layers.boxes = <<>>
    /\ Layers.chart # absent
    /\ \A k \in Samples : \A c \in Categories :
         Chart.categoryCounts[c][k] =
           Cardinality({i \in 1..Len(DetectionNames(Chart.frames[k])) :
                          CategoryIndexOf(toLowerCase(DetectionNames(Chart.frames[k])[i])) = c})

\* a completed pass at an absent frame whose trailing window holds tracked
\* detections and whose chart counts detections
C9_Witness ==
  /\ canvas.drawn
  /\ FrameIndex \notin DOMAIN Result.frames
  /\ \E p \in WindowDetections : Result.frames[p[1]].track_ids[p[2]] # nullId
  /\ \E k \in Samples : \E c \in Categories : Chart.categoryCounts[c][k] > 0

\* the categories whose series are switched on
VisibleCategories ==
  {c \in Categories : CategoryVisible(props.graphCategoryVisible, GRAPH_CATEGORIES[c].label)}

\* C10: maxCount is the larger of 1 and the largest count of a visible
\* category over the window, whatever the counts of the hidden categories;
\* the series plotted are those of the visible categories and each of their
\* counts is within 0..maxCount.
C10_HiddenSeriesAxisScale ==
  canvas.drawn =>
    LET shown == {Chart.categoryCounts[c][k] : c \in VisibleCategories, k \in Samples}
    IN /\ Chart.maxCount >= 1
       /\ \A x \in shown : 0 <= x /\ x <= Chart.maxCount
       /\ Chart.maxCount = 1 \/ Chart.maxCount \in shown
       /\ Chart.series = VisibleCategories

\* a chart in which a hidden category counts more than maxCount while a
\* visible category is plotted with a count above 0
C10_Witness ==
  /\ canvas.drawn
  /\ \E c \in Categories \ VisibleCategories : \E k \in Samples :
       Chart.categoryCounts[c][k] > Chart.maxCount
  /\ \E c \in VisibleCategories : \E k \in Samples : Chart.categoryCounts[c][k] > 0

\* C11: the chart window of a pass is [max(0, t_sync - 2), t_sync + 2]: its
\* lower bound is never below 0 and the playhead lies inside it.
C11_ChartWindowBounds ==
  canvas.drawn =>
    /\ Chart.tMin >= 0
    /\ Chart.tMin <= SyncTime /\ SyncTime <= Chart.tMax
    /\ Chart.tMax = SyncTime + GRAPH_WINDOW_SEC * GridPerSec
    /\ Chart.tMin = IF SyncTime >= GRAPH_WINDOW_SEC * GridPerSec
                    THEN SyncTime - GRAPH_WINDOW_SEC * GridPerSec ELSE 0

\* a chart drawn with the playhead above 0 and less than the window's half
\* width: the lower bound is clamped to 0
C11_Witness ==
  /\ canvas.drawn
  /\ SyncTime > 0
  /\ SyncTime < GRAPH_WINDOW_SEC * GridPerSec
  /\ Chart.tMin = 0

\* C12: the hue of a box is a function of its track id alone: boxes with the
\* same id have the same hue, a present id has the hue (id * 137.508) mod 360
\* (242.556 for id 7) and a null id has the hue 0.
C12_IdentityColour ==
  canvas.drawn =>
    /\ \A i, j \in 1..Len(Layers.boxes) :
         Layers.boxes[i].tid = Layers.boxes[j].tid =>
           Layers.boxes[i].hue = Layers.boxes[j].hue
    /\ \A i \in 1..Len(Layers.boxes) :
         /\ Layers.boxes[i].tid = Result.frames[FrameIndex].track_ids[i]
         /\ Layers.boxes[i].tid = nullId => Layers.boxes[i].hue = 0
         /\ Layers.boxes[i].tid # nullId =>
              /\ 0 <= Layers.boxes[i].hue /\ Layers.boxes[i].hue < 360000
              /\ \E q \in 0..Layers.boxes[i].tid :
                   Layers.boxes[i].tid * 137508 = q * 360000 + Layers.boxes[i].hue
         /\ Layers.boxes[i].tid = 7 => Layers.boxes[i].hue = 242556

\* a frame drawn with a box of track id 7, a box of another id whose product
\* exceeds 360 degrees, and an untracked box
C12_Witness ==
  /\ canvas.drawn
  /\ \E i \in 1..Len(Layers.boxes) : Layers.boxes[i].tid = 7
  /\ \E i \in 1..Len(Layers.boxes) :
       Layers.boxes[i].tid # nullId /\ Layers.boxes[i].tid * 137508 >= 360000
  /\ \E i \in 1..Len(Layers.boxes) : Layers.boxes[i].tid = nullId

\* C13: the step that completes a change of videoUrl, and the unmount, leave
\* the audio context closed, the four handles (context, analyser, media
\* source, sample buffer) null and the audio history empty; no tick runs
\* between the render with the new source and that step.
C13_TeardownOnSourceChange ==
  [][(view = "mounted" /\ ((effects.url /\ effects' = NoEffects) \/ view' = "unmounted"))
       => /\ audioContextRef' = absent
          /\ analyserRef' = null
          /\ mediaSourceRef' = null
          /\ audioDataRef' = null
          /\ audioHistoryRef' = <<>>
          /\ audioContextRef # absent => contexts'[audioContextRef[1]].state = "closed"
          /\ \A i \in 1..Len(contexts) :
               contexts[i].wired => contexts'[i].state = "closed"]_vars

\* a new source's effects have run: the old context is closed, the handles and
\* the history are cleared, while the canvas still shows the chart of the old
\* source with a non-zero audio level
C13_Witness ==
  /\ Idle
  /\ props.videoUrl = "b"
  /\ \E i \in 1..Len(contexts) : contexts[i].state = "closed"
  /\ audioContextRef = absent
  /\ audioHistoryRef = <<>>
  /\ canvas.drawn
  /\ \E i \in 1..Len(Chart.audioLevels) : Chart.audioLevels[i].n > 0

\* every sample of the audio history is at most AUDIO_HISTORY_MAX_SEC older
\* than the playback time
HistoryWithinWindow ==
  \A k \in 1..Len(audioHistoryRef) :
    audioHistoryRef[k].time >= video.currentTime - AUDIO_HISTORY_MAX_SEC * GridPerSec

\* C14: after every tick, whatever the plays, pauses and seeks before it, every
\* sample of the audio history has time >= currentTime - 4 s.  A tick that
\* changes nothing (media paused) leaves the state it ran in, so the bound must
\* hold in every paused state in which the loop runs; a tick that changes the
\* state must establish it.
C14_HistoryTimeBound ==
  /\ []((Idle /\ rafPending > 0 /\ video.paused) => HistoryWithinWindow)
  /\ [][Frame => HistoryWithinWindow']_vars

C16_SingleRedrawLoop ==
  /\ view = "mounted" => rafPending = 1
  /\ view = "unmounted" => rafPending = 0

\* the loop has been restarted by a change of graphCategoryVisible and a pass
\* has drawn the chart without the hidden class since
C16_Witness ==
  /\ Idle
  /\ rafPending = 1
  /\ props.graphCategoryVisible # AllVisible
  /\ canvas.drawn
  /\ Layers.chart # absent
  /\ \E c \in Categories : c \notin Chart.series
  /\ audioHistoryRef # <<>>

\* the cases in which the whole pass is skipped
SkipCase ==
  \/ props.trackResult = absent
  \/ video.readyState < 2
  \/ video.videoWidth = 0
  \/ video.videoHeight = 0

\* C17: a tick (or a listener's pass) in which the track result and with it
\* the canvas is missing, the media readyState is below 2 or a native
\* dimension is 0 leaves the audio history, the canvas dimensions and the
\* canvas contents unchanged.
C17_WholePassSkip ==
  [][(SkipCase /\ (Frame \/ ListenerPass))
       => (audioHistoryRef' = audioHistoryRef /\ canvas' = canvas)]_vars

\* the loop runs on a media element that is playing but not ready, with the
\* pipeline initialised and an earlier drawing on the canvas
C17_Witness ==
  /\ Idle
  /\ rafPending = 1
  /\ SkipCase
  /\ props.trackResult # absent
  /\ analyserRef # null
  /\ ~video.paused /\ ~video.ended
  /\ canvas.drawn

OpenPipelines == {i \in 1..Len(contexts) : contexts[i].wired /\ contexts[i].state # "closed"}

\* C19: an AudioContext is constructed, and the pipeline refs are set, only by
\* a step of the play listener or of the click handler (never by the mount, a
\* render, an effect, a tick or a listener pass); at most one pipeline is open
\* at any time, and it is the one the refs hold; a play or click while the
\* refs hold a pipeline constructs nothing.
C19_GestureGatedInit ==
  /\ [](/\ Cardinality(OpenPipelines) <= 1
        /\ OpenPipelines = (IF audioContextRef = absent THEN {} ELSE {audioContextRef[1]})
        /\ (analyserRef # null) = (audioContextRef # absent))
  /\ [][(Len(contexts') > Len(contexts) \/ (analyserRef = null /\ analyserRef' # null))
          => (Play \/ Click)]_vars
  /\ [][analyserRef # null => Len(contexts') = Len(contexts)]_vars

\* a second pipeline has been built by a play or click after the first was
\* torn down, and a click with it in place has changed nothing
C19_Witness ==
  /\ Idle
  /\ audioContextRef = Present(2)
  /\ contexts[1].wired
  /\ contexts[1].state = "closed"
  /\ contexts[2].state = "running"
  /\ audioHistoryRef # <<>>

\* C20: no failure of initAudioPipeline or of resumeAudioContext leaves a
\* partial pipeline: without an analyser all four handles are null and the
\* audio history is empty, every level looked up in the history is 0, and a
\* chart drawn by a tick shows the level 0 throughout; a later play or click
\* retries: initAudioPipeline can still succeed and a suspended context can
\* still resume.
C20_InitFailureContained ==
  /\ [](analyserRef = null =>
          /\ audioContextRef = absent
          /\ mediaSourceRef = null
          /\ audioDataRef = null
          /\ audioHistoryRef = <<>>
          /\ \A t \in 0..(MaxLifeTime + GRAPH_WINDOW_SEC * GridPerSec) :
               getAudioLevelAt(audioHistoryRef, Frac(t, GridPerSec)) = FracZero)
  /\ []((Idle /\ analyserRef = null /\ props.videoUrl # null
           /\ Len(contexts) < MaxContexts) =>
          \E r \in initAudioPipeline(AudioRefs) : r.analyser # null)
  /\ []((Idle /\ audioContextRef # absent) =>
          (contexts[audioContextRef[1]].state = "suspended" =>
             \E r \in resumeAudioContext(AudioRefs) :
               r.contexts[audioContextRef[1]].state = "running"))
  /\ [][(analyserRef = null /\ ~SkipCase /\ Frame) =>
          \A k \in 1..Len(canvas'.layers.chart[1].audioLevels) :
            canvas'.layers.chart[1].audioLevels[k] = FracZero]_vars

\* an initialisation has failed after constructing a context: the media plays
\* with no handle set and an empty history, and a tick has drawn the chart
C20_Witness ==
  /\ Idle
  /\ \E i \in 1..Len(contexts) : ~contexts[i].wired
  /\ analyserRef = null
  /\ audioContextRef = absent
  /\ audioHistoryRef = <<>>
  /\ ~video.paused
  /\ ~SkipCase
  /\ canvas.drawn
  /\ Layers.chart # absent
  /\ \A k \in 1..Len(Chart.audioLevels) : Chart.audioLevels[k] = FracZero

\* the samples of a history are in non-decreasing order of time
TimeOrdered(samples) ==
  \A i, j \in 1..Len(samples) : i < j => samples[i].time <= samples[j].time

\* v is the level the specification gives for time t (seconds, a fraction):
\* 0 for no sample, the level of a single sample, the level of an earliest
\* sample for t at or before every sample time, the level of a latest sample
\* for t after every sample time, and otherwise the linear interpolation
\* between a sample a before t and a sample b not before t with no sample
\* time between theirs
IsLookupByTime(samples, t, v) ==
  LET idx == 1..Len(samples)
      Before(i) == samples[i].time * t.d < t.n * GridPerSec
  IN IF Len(samples) = 0 THEN FracEq(v, FracZero)
     ELSE IF Len(samples) = 1 THEN FracEq(v, LevelFrac(samples[1].level))
     ELSE IF \A i \in idx : ~Before(i)
     THEN \E i \in idx :
            /\ \A j \in idx : samples[i].time <= samples[j].time
            /\ FracEq(v, LevelFrac(samples[i].level))
     ELSE IF \A i \in idx : Before(i)
     THEN \E i \in idx :
            /\ \A j \in idx : samples[j].time <= samples[i].time
            /\ FracEq(v, LevelFrac(samples[i].level))
     ELSE \E a, b \in idx :
            /\ Before(a) /\ ~Before(b)
            /\ \A c \in idx : ~(samples[a].time < samples[c].time
                                 /\ samples[c].time < samples[b].time)
            /\ FracEq(v, Frac(samples[a].level * t.d * (samples[b].time - samples[a].time)
                                + (t.n * GridPerSec - samples[a].time * t.d)
                                    * (samples[b].level - samples[a].level),
                              AUDIO_CENTER * t.d * (samples[b].time - samples[a].time)))

\* the last pass drew the chart of a result without precomputed audio levels
LiveChart == canvas.drawn /\ ~preScanned(Result)

\* C21: every level the chart looks up in the live history (for the samples
\* not after the playhead, and for the playhead marker) is the linear
\* interpolation between the two samples bracketing the time, the first
\* sample's level at or before it, the last sample's level after it, 0 for an
\* empty history and the level of a single sample.
C21_LiveLevelLookup ==
  LiveChart =>
    /\ \A k \in Samples :
         Chart.frames[k] * GridPerSec <= SyncTime * props.fps =>
           IsLookupByTime(audioHistoryRef, Frac(Chart.frames[k], props.fps),
                          Chart.audioLevels[k])
    /\ Chart.marker # absent =>
         IsLookupByTime(audioHistoryRef, Frac(SyncTime, GridPerSec),
                        Chart.marker[1].level)

\* C22: every sample time fi / fps the chart tallies and plots lies inside the
\* window: tMin <= fi / fps <= tMax.
C22_SampleTimesInWindow ==
  canvas.drawn =>
    \A k \in Samples :
      /\ Chart.tMin * props.fps <= Chart.frames[k] * GridPerSec
      /\ Chart.frames[k] * GridPerSec <= Chart.tMax * props.fps

\* the audio series and the playhead marker the chart of the last pass would
\* have plotted, had the live audio history been h
AudioPlottedWith(h) ==
  LET c == drawCountGraph(Result, props.fps, SyncTime, h, props.graphCategoryVisible)
  IN [audioPlot |-> c.audioPlot, marker |-> c.marker]

\* C23: whenever the result carries audio_levels (empty or not), the audio
\* values the chart plots do not depend on the live audio history: the pass
\* run with any other history plots the same series and the same marker.
C23_PrecomputedAuthoritative ==
  (canvas.drawn /\ Result.audio_levels # absent) =>
    \A h \in AudioHistories :
      AudioPlottedWith(h) = [audioPlot |-> Chart.audioPlot, marker |-> Chart.marker]

\* C24: a tick whose pass is not skipped assigns the canvas width and height
\* exactly when one of them differs from the display element's size, and
\* leaves them equal to the display element's size; a skipped pass does not
\* touch the canvas.  Every step of SpecDraw is a tick.
C24_SurfaceSizing ==
  [][IF SkipCase
     THEN canvas' = canvas
     ELSE /\ canvas'.width = video.clientWidth
          /\ canvas'.height = video.clientHeight
          /\ canvas'.resized = (canvas.width # video.clientWidth
                                 \/ canvas.height # video.clientHeight)]_vars

\* a pass has drawn on a canvas that already had the display element's size,
\* without assigning its dimensions
C24_Witness ==
  /\ canvas.drawn
  /\ ~canvas.resized
  /\ canvas.width = video.clientWidth
  /\ canvas.height = video.clientHeight
  /\ Layers.chart # absent

\* C25: after any sequence of ticks, pauses and seeks the samples of the
\* audio history are in non-decreasing order of time.
C25_HistoryOrdered == TimeOrdered(audioHistoryRef)

\* lookup times of every quarter second of the timeline
LookupTimes == {Frac(k, 2 * GridPerSec) : k \in 0..(2 * MaxTime)}

\* the lookup interpolates: the scan stopped at a sample that has a predecessor
Interpolates(samples, t) ==
  /\ Len(samples) >= 2
  /\ FirstNotBefore(samples, t, 1) > 1
  /\ FirstNotBefore(samples, t, 1) <= Len(samples)

\* C26: for the audio history of every state (in time order or not, with
\* equal times or not) and every lookup time, getAudioLevelAt returns a level
\* between the smallest and the largest level of the samples and between 0
\* and 1; when it interpolates between a and b, a.time < t <= b.time, so the
\* denominator b.time - a.time is not zero and the fraction is in (0, 1].
C26_InterpolationInRange ==
  \A t \in LookupTimes :
    LET h == audioHistoryRef
        v == getAudioLevelAt(h, t)
        i == FirstNotBefore(h, t, 1)
    IN /\ v.d > 0
       /\ FracLeq(FracZero, v) /\ FracLeq(v, FracOne)
       /\ Len(h) > 0 =>
            \E lo, hi \in 1..Len(h) :
              /\ FracLeq(LevelFrac(h[lo].level), v)
              /\ FracLeq(v, LevelFrac(h[hi].level))
       /\ Interpolates(h, t) =>
            /\ h[i].time - h[i - 1].time # 0
            /\ h[i - 1].time * t.d < t.n * GridPerSec
            /\ t.n * GridPerSec <= h[i].time * t.d

\* a chart was drawn from a history out of time order and with two samples of
\* equal time, and a lookup interpolates to a level strictly between those of
\* its two samples
C26_Witness ==
  /\ canvas.drawn
  /\ ~TimeOrdered(audioHistoryRef)
  /\ \E j, k \in 1..Len(audioHistoryRef) :
       j # k /\ audioHistoryRef[j].time = audioHistoryRef[k].time
  /\ \E t \in LookupTimes :
       /\ Interpolates(audioHistoryRef, t)
       /\ LET i == FirstNotBefore(audioHistoryRef, t, 1)
              a == LevelFrac(audioHistoryRef[i - 1].level)
              b == LevelFrac(audioHistoryRef[i].level)
              v == getAudioLevelAt(audioHistoryRef, t)
          IN (FracLess(a, v) /\ FracLess(v, b)) \/ (FracLess(b, v) /\ FracLess(v, a))

\* C27: in every reachable state the audio context, the analyser, the media
\* source node and the sample buffer are all set or all null, and the audio
\* history is non-empty only while they are set.
C27_HandleConsistency ==
  /\ \/ /\ audioContextRef = absent /\ analyserRef = null
        /\ mediaSourceRef = null /\ audioDataRef = null
     \/ /\ audioContextRef # absent /\ analyserRef # null
        /\ mediaSourceRef # null /\ audioDataRef # null
  /\ Len(audioHistoryRef) > 0 => audioContextRef # absent

\* the four handles are set again after a teardown closed an earlier
\* pipeline, and the history holds samples of the new one
C27_Witness ==
  /\ audioContextRef # absent /\ analyserRef # null
  /\ mediaSourceRef # null /\ audioDataRef # null
  /\ Len(audioHistoryRef) > 0
  /\ \E i \in 1..Len(contexts) : contexts[i].wired /\ contexts[i].state = "closed"

\* the runs of App's handlers that await runTrack
TrackingRuns == {i \in 1..Len(app.runs) : app.runs[i].at = "runTrack"}

\* C28: a trackResult shown with a videoId was produced by a tracking run on
\* that videoId, and loading is true whenever a tracking run is in flight.
C28_ResultOfCurrentVideo ==
  /\ (app.trackResult # absent /\ app.videoId # absent) =>
       app.trackResult[1].video_id = app.videoId[1]
  /\ TrackingRuns # {} => app.loading

\* C29: the promise of uploadVideo, once settled, keeps its outcome; when the
\* timer callback has run (it runs only if no progress, load or error event
\* came first) the promise is rejected with the 'Upload timed out' error; no
\* timer is armed once the promise has settled.
C29_UploadSettlement ==
  [][/\ upload.promise.state # "pending" => upload'.promise = upload.promise
     /\ upload'.timerFired =>
          upload'.promise = [state |-> "rejected", value |-> "Upload timed out"]
     /\ upload'.promise.state # "pending" => ~upload'.timerPending]_vars

\* the status of the last progress given to onProgress
LastProgress == track.progress[Len(track.progress)]

\* C30: runTrack fetches the result once, and only after a poll reported
\* 'done'; onProgress has been called once for every poll response, the final
\* one included; after a poll reported 'error' the call has thrown with the
\* job's message; 'done' and 'error' end the polling; once the abort timer
\* has fired no poll is under way and the call, when it has ended, has thrown
\* the timeout error; no timer is armed after the function has left the loop.
C30_PollProtocol ==
  /\ track.resultFetches <= 1
  /\ track.resultFetches = 1 <=>
       (track.progress # <<>> /\ LastProgress.status = "done")
  /\ Len(track.progress) = track.polls
  /\ (track.progress # <<>> /\ LastProgress.status = "error") =>
       /\ track.at = "thrown"
       /\ track.promise =
            [state |-> "rejected",
             value |-> IF LastProgress.message # "" THEN LastProgress.message
                       ELSE "Tracking failed"]
  /\ \A i \in 1..(Len(track.progress) - 1) : track.progress[i].status = "running"
  /\ track.at \in {"poll", "sleep"} =>
       \A i \in 1..Len(track.progress) : track.progress[i].status = "running"
  /\ track.aborted =>
       /\ track.at \in {"sleep", "thrown"}
       /\ track.at = "thrown" =>
            track.promise = [state |-> "rejected",
                             value |-> "Tracking timed out after 10 minutes"]
  /\ track.at \in {"getResult", "returned", "thrown"} => ~track.timerPending

\* the call has returned the result it fetched after two polls reported
\* 'running' and a third 'done'
C30_Witness ==
  /\ track.at = "returned"
  /\ track.promise = [state |-> "fulfilled", value |-> "result"]
  /\ Len(track.progress) = 3
  /\ LastProgress.status = "done"
  /\ track.resultFetches = 1

====
